---- MODULE Spec2Model ----
(***************************************************************************)
(* A model of backend/app.py, the image upscaling service:                 *)
(*   - the "http" middleware add_security_headers (sliding-window rate     *)
(*     limiter on request_counts, then the security headers),              *)
(*   - ImageProcessor.validate_image_file and ImageProcessor.process_image,*)
(*   - the endpoints GET /, GET /health and POST /upscale with the         *)
(*     exception handlers registered for 413 and 422.                      *)
(*                                                                         *)
(* Time is counted in whole seconds.  A scale factor is a float of the     *)
(* code: a finite value is kept as an exact fraction n/d (the sampled      *)
(* factors are dyadic, so the code's float products and quotients on the   *)
(* sampled sizes agree with the exact ones), and nan, +inf, -inf are kept  *)
(* as such.                                                                *)
(***************************************************************************)
EXTENDS Integers, Sequences, FiniteSets, TLC

VARIABLES
    now,             \* time.time() of the process, in seconds
    request_counts,  \* request_counts: client_ip -> list of admitted times
    log,             \* history: client_ip -> every rate-limit check made
    reqs,            \* the requests being handled, one record per slot
    call,            \* a direct call of ImageProcessor.process_image
    result           \* what that call returned or raised

vars == <<now, request_counts, log, reqs, call, result>>

(***************************************************************************)
(* Program constants                                                       *)
(***************************************************************************)
RATE_LIMIT_REQUESTS == 10
RATE_LIMIT_WINDOW == 60
MAX_FILE_SIZE == 10 * 1024 * 1024
MAX_DIMENSION == 4000

EXT_JPG == <<".", "j", "p", "g">>
EXT_JPEG == <<".", "j", "p", "e", "g">>
EXT_PNG == <<".", "p", "n", "g">>
EXT_WEBP == <<".", "w", "e", "b", "p">>
ALLOWED_EXTENSIONS == {EXT_JPG, EXT_JPEG, EXT_PNG, EXT_WEBP}
ALLOWED_MIME_TYPES == {"image/jpeg", "image/png", "image/webp"}

Fin(n, d) == [kind |-> "fin", n |-> n, d |-> d]
NaN == [kind |-> "nan", n |-> 0, d |-> 1]
PosInf == [kind |-> "pinf", n |-> 0, d |-> 1]
NegInf == [kind |-> "ninf", n |-> 0, d |-> 1]
DEFAULT_SCALE_FACTOR == Fin(2, 1)

(***************************************************************************)
(* Bounds of the model                                                     *)
(***************************************************************************)
MaxChecks == 12     \* rate-limit checks made in one run, all clients
MaxTime == 90       \* the clock stops advancing here
MaxInflight == 2    \* requests handled concurrently
MaxSmallDim == 3    \* small image sides 1..MaxSmallDim

TickSteps == {30, 60}
Clients == {"10.0.0.1", "10.0.0.2"}
Slots == 1..MaxInflight

(***************************************************************************)
(* The rate limiter of add_security_headers                                *)
(***************************************************************************)
\* Prune with the comparison <= : a time exactly one window old is kept
PruneKeepsBoundary(times, t) ==
    SelectSeq(times, LAMBDA req_time : t - req_time <= RATE_LIMIT_WINDOW)

\* the list comprehension that drops the expired times
Prune(times, t) == SelectSeq(times, LAMBDA req_time : t - req_time < RATE_LIMIT_WINDOW)

\* OverLimit with the comparison > : one request too many is let through
OverLimitOffByOne(times) == Len(times) > RATE_LIMIT_REQUESTS

\* the rate-limit test on the pruned list
OverLimit(times) == Len(times) >= RATE_LIMIT_REQUESTS

\* RecordRequest that assigns instead of appending: the earlier times are lost
RecordOverwrites(times, t) == <<t>>

\* request_counts[client_ip].append(now)
RecordRequest(times, t) == Append(times, t)


(***************************************************************************)
(* ImageProcessor.validate_image_file                                      *)
(***************************************************************************)
\* str.lower() on the letters that occur in the sampled names
LowerChar(c) ==
    CASE c = "A" -> "a"
      [] c = "G" -> "g"
      [] c = "J" -> "j"
      [] c = "N" -> "n"
      [] c = "P" -> "p"
      [] OTHER -> c

Lower(p) == [i \in 1..Len(p) |-> LowerChar(p[i])]

\* str.rfind, 1-based: 0 when ch does not occur
RFind(p, ch) ==
    LET hits == {i \in 1..Len(p) : p[i] = ch}
    IN IF hits = {} THEN 0 ELSE CHOOSE i \in hits : \A j \in hits : j <= i

\* os.path.splitext: the extension starts at the last dot of the last path
\* component, unless only dots precede it there
Splitext(p) ==
    LET sepIndex == RFind(p, "/")
        dotIndex == RFind(p, ".")
    IN IF dotIndex > sepIndex /\ \E k \in (sepIndex + 1)..(dotIndex - 1) : p[k] # "."
       THEN <<SubSeq(p, 1, dotIndex - 1), SubSeq(p, dotIndex, Len(p))>>
       ELSE <<p, <<>>>>

\* file.size: the attribute is missing, is None, or is an integer
SizeAbsent == [known |-> "absent", v |-> 0]
SizeNone == [known |-> "none", v |-> 0]
SizeOf(n) == [known |-> "int", v |-> n]

MSG_SIZE == "File size exceeds maximum limit of 10MB"
MSG_FORMAT == "Unsupported file format"
MSG_MIME == "Invalid content type. Expected image file."
MSG_FAILED == "File validation failed"

\* hasattr(file, 'size') and file.size > MAX_FILE_SIZE; comparing None with
\* an int raises TypeError
SizeCheckRaises(file) == file.size.known = "none"

SizeExceeded(file) == file.size.known = "int" /\ file.size.v > MAX_FILE_SIZE

ExtensionRejected(file) ==
    /\ file.filename # <<>>
    /\ Splitext(Lower(file.filename))[2] \notin ALLOWED_EXTENSIONS

MimeRejected(file) == file.content_type \notin ALLOWED_MIME_TYPES

\* ValidateImageFile without the extension check
ValidateSkipsExtension(file) ==
    IF SizeCheckRaises(file) THEN <<FALSE, MSG_FAILED>>
    ELSE IF SizeExceeded(file) THEN <<FALSE, MSG_SIZE>>
    ELSE IF MimeRejected(file) THEN <<FALSE, MSG_MIME>>
    ELSE <<TRUE, "">>

\* returns <<is_valid, error_message>>; the except clause turns any exception
\* into <<FALSE, "File validation failed">>
ValidateImageFile(file) ==
    IF SizeCheckRaises(file) THEN <<FALSE, MSG_FAILED>>
    ELSE IF SizeExceeded(file) THEN <<FALSE, MSG_SIZE>>
    ELSE IF ExtensionRejected(file) THEN <<FALSE, MSG_FORMAT>>
    ELSE IF MimeRejected(file) THEN <<FALSE, MSG_MIME>>
    ELSE <<TRUE, "">>

(***************************************************************************)
(* ImageProcessor.process_image                                            *)
(***************************************************************************)
\* int(x) of the float x = w * s for a finite s: truncation towards zero
IntOfProduct(w, s) ==
    IF w * s.n >= 0 THEN (w * s.n) \div s.d ELSE -((-(w * s.n)) \div s.d)

\* a < b on finite floats
Less(a, b) == a.n * b.d < b.n * a.d

\* min(a, b, c) of Python: the first of the smallest
Min3(a, b, c) ==
    LET m1 == IF Less(b, a) THEN b ELSE a
    IN IF Less(c, m1) THEN c ELSE m1

\* the mode after the conversion block: RGBA and LA are pasted on a white RGB
\* background, RGB and L are kept, every other mode is converted to RGB
ConvertedMode(mode) == IF mode \in {"RGB", "L"} THEN mode ELSE "RGB"

\* scale_factor as the resize and the metadata use it: reduced when a target
\* side would pass MAX_DIMENSION
ClampedScale(w, h, s) ==
    IF IntOfProduct(w, s) > MAX_DIMENSION \/ IntOfProduct(h, s) > MAX_DIMENSION
    THEN Min3(Fin(MAX_DIMENSION, w), Fin(MAX_DIMENSION, h), s)
    ELSE s

NewSize(w, h, s) ==
    LET used == ClampedScale(w, h, s)
    IN <<IntOfProduct(w, used), IntOfProduct(h, used)>>

\* ReportedScale without the reassignment: the requested factor is reported
ReportedRequestedScale(w, h, s) == s

\* the scale_factor entry of the metadata: the local variable scale_factor,
\* which the clamp has reassigned
ReportedScale(w, h, s) == ClampedScale(w, h, s)

NoMeta ==
    [original_size |-> <<0, 0>>, processed_size |-> <<0, 0>>,
     scale_factor |-> Fin(0, 1), format |-> ""]

Corrupt == [kind |-> "corrupt", mode |-> "", width |-> 0, height |-> 0]
Picture(mode, w, h) == [kind |-> "image", mode |-> mode, width |-> w, height |-> h]

\* the first stage that raises, "" when none does.  fault is a stage in which
\* the library raises on its own (out of memory, a decoder or encoder error)
FailedStage(image, s, fault) ==
    IF image.kind = "corrupt" \/ fault = "decode" THEN "decode"
    ELSE IF fault = "convert" THEN "convert"
    ELSE IF s.kind # "fin" THEN "dimensions"
    ELSE IF \/ fault = "resize"
            \/ NewSize(image.width, image.height, s)[1] < 1
            \/ NewSize(image.width, image.height, s)[2] < 1 THEN "resize"
    ELSE IF fault \in {"sharpen", "encode"} THEN fault
    ELSE ""

\* what a raised exception of process_image becomes: the except clause of
\* process_image wraps it in HTTPException(422)
ProcessRaises(stage) == [kind |-> "HTTPException", status |-> 422, detail |-> "Image processing failed"]

\* the call's outcome: the bytes and the metadata, or the exception raised
ProcessImage(image, s, fault) ==
    LET stage == FailedStage(image, s, fault)
    IN IF stage # ""
       THEN [ok |-> FALSE, failed |-> stage, exc |-> ProcessRaises(stage),
             mode |-> "", meta |-> NoMeta]
       ELSE [ok |-> TRUE, failed |-> "", exc |-> [kind |-> "", status |-> 0, detail |-> ""],
             mode |-> ConvertedMode(image.mode),
             meta |-> [original_size |-> <<image.width, image.height>>,
                       processed_size |-> NewSize(image.width, image.height, s),
                       scale_factor |-> ReportedScale(image.width, image.height, s),
                       format |-> "JPEG"]]


(***************************************************************************)
(* Responses                                                               *)
(***************************************************************************)
SECURITY_HEADERS ==
    {"X-Content-Type-Options", "X-Frame-Options", "X-XSS-Protection",
     "Strict-Transport-Security", "Referrer-Policy"}

NoResponse ==
    [status |-> 0, detail |-> "", error_code |-> "", body |-> "",
     processing_status |-> "", metadata |-> NoMeta, headers |-> {}]

JSONResponse(status, detail, error_code) ==
    [status |-> status, detail |-> detail, error_code |-> error_code,
     body |-> "json", processing_status |-> "", metadata |-> NoMeta, headers |-> {}]

\* the StreamingResponse of upscale_image
StreamingResponse(meta) ==
    [status |-> 200, detail |-> "", error_code |-> "", body |-> "image/jpeg",
     processing_status |-> "success", metadata |-> meta, headers |-> {}]

HTTPException(status, detail) ==
    [kind |-> "HTTPException", status |-> status, detail |-> detail]

\* an exception that is not an HTTPException
OtherException == [kind |-> "Exception", status |-> 0, detail |-> ""]

\* the response the application makes of an HTTPException: the handlers
\* registered for 413 and 422, the framework's {"detail": ...} otherwise
ExceptionResponse(exc) ==
    IF exc.status = 413
    THEN JSONResponse(413, "File too large. Maximum size allowed: 10MB", "FILE_TOO_LARGE")
    ELSE IF exc.status = 422
    THEN JSONResponse(422, "Validation error occurred", "VALIDATION_ERROR")
    ELSE JSONResponse(exc.status, exc.detail, "")

\* UpscaleExcept with the clause "except Exception" first: it catches the
\* HTTPException too
UpscaleExceptCatchesAll(exc) ==
    HTTPException(500, "Internal server error during image processing")

\* the except clauses of upscale_image: an HTTPException is raised again,
\* anything else becomes HTTPException(500)
UpscaleExcept(exc) ==
    IF exc.kind = "HTTPException" THEN exc
    ELSE HTTPException(500, "Internal server error during image processing")

\* the headers add_security_headers sets on the response of call_next
AddSecurityHeaders(response) ==
    [response EXCEPT !.headers = @ \cup SECURITY_HEADERS]

\* the response add_security_headers returns when the limit is reached
RateLimitResponse ==
    JSONResponse(429, "Rate limit exceeded. Please try again later.", "")

(***************************************************************************)
(* Requests                                                                *)
(***************************************************************************)
NoFile == [size |-> SizeAbsent, filename |-> <<>>, content_type |-> ""]

\* what validate_image_file returned for the request, once it was called
NotValidated == [called |-> FALSE, is_valid |-> FALSE, error_message |-> ""]
Validated(res) == [called |-> TRUE, is_valid |-> res[1], error_message |-> res[2]]

IdleRequest ==
    [pc |-> "idle", client |-> "", path |-> "", scale_factor |-> DEFAULT_SCALE_FACTOR,
     file |-> NoFile, body_len |-> 0, trace |-> <<>>, valid |-> NotValidated,
     failed |-> "", response |-> NoResponse]

NewRequest(c, path, s, file, len) ==
    [pc |-> "middleware", client |-> c, path |-> path, scale_factor |-> s,
     file |-> file, body_len |-> len, trace |-> <<>>, valid |-> NotValidated,
     failed |-> "", response |-> NoResponse]

NoCall == [image |-> Corrupt, scale_factor |-> DEFAULT_SCALE_FACTOR, fault |-> "", made |-> FALSE]
NoResult == [ok |-> FALSE, failed |-> "", exc |-> [kind |-> "", status |-> 0, detail |-> ""],
             mode |-> "", meta |-> NoMeta]

ChecksMade == LET n[cs \in SUBSET Clients] ==
                      IF cs = {} THEN 0
                      ELSE LET c == CHOOSE x \in cs : TRUE
                           IN Len(log[c]) + n[cs \ {c}]
              IN n[Clients]

Waiting == Cardinality({r \in Slots : reqs[r].pc = "middleware"})

\* a request reaches the server in slot r
Arrive(r, c, path, s, file, len) ==
    /\ reqs[r].pc = "idle"
    /\ ChecksMade + Waiting < MaxChecks
    /\ reqs' = [reqs EXCEPT ![r] = NewRequest(c, path, s, file, len)]
    /\ UNCHANGED <<now, request_counts, log, call, result>>

\* the clock advances
Tick ==
    /\ \E d \in TickSteps :
          /\ now + d <= MaxTime
          /\ now' = now + d
    /\ UNCHANGED <<request_counts, log, reqs, call, result>>

(***************************************************************************)
(* add_security_headers                                                    *)
(***************************************************************************)
\* Gate with an await between the rate-limit test and the append: another
\* request's test can run in between
GateWithAwait(r) ==
    /\ LET client_ip == reqs[r].client
           kept == Prune(request_counts[client_ip], now)
       IN \/ /\ reqs[r].pc = "middleware"
             /\ request_counts' = [request_counts EXCEPT ![client_ip] = kept]
             /\ IF OverLimit(kept)
                THEN /\ log' = [log EXCEPT ![client_ip] =
                                   Append(@, [t |-> now, admitted |-> FALSE])]
                     /\ reqs' = [reqs EXCEPT ![r].pc = "done",
                                             ![r].response = RateLimitResponse]
                ELSE /\ reqs' = [reqs EXCEPT ![r].pc = "gate_await"]
                     /\ UNCHANGED log
          \/ /\ reqs[r].pc = "gate_await"
             /\ request_counts' = [request_counts EXCEPT
                                      ![client_ip] = RecordRequest(@, now)]
             /\ log' = [log EXCEPT ![client_ip] = Append(@, [t |-> now, admitted |-> TRUE])]
             /\ reqs' = [reqs EXCEPT ![r].pc = "call_next",
                                     ![r].trace = Append(@, "gate")]
    /\ UNCHANGED <<now, call, result>>

\* from the entry of the middleware to "await call_next(request)": the code
\* has no await in between, so the event loop runs it as one step
Gate(r) ==
    /\ reqs[r].pc = "middleware"
    /\ LET client_ip == reqs[r].client
           kept == Prune(request_counts[client_ip], now)
       IN IF OverLimit(kept)
          THEN /\ request_counts' = [request_counts EXCEPT ![client_ip] = kept]
               /\ log' = [log EXCEPT ![client_ip] = Append(@, [t |-> now, admitted |-> FALSE])]
               /\ reqs' = [reqs EXCEPT ![r].pc = "done",
                                       ![r].response = RateLimitResponse]
          ELSE /\ request_counts' = [request_counts EXCEPT
                                        ![client_ip] = RecordRequest(kept, now)]
               /\ log' = [log EXCEPT ![client_ip] = Append(@, [t |-> now, admitted |-> TRUE])]
               /\ reqs' = [reqs EXCEPT ![r].pc = "call_next",
                                       ![r].trace = Append(@, "gate")]
    /\ UNCHANGED <<now, call, result>>

\* after call_next returned: the headers are set and the response returned
Respond(r) ==
    /\ reqs[r].pc = "respond"
    /\ reqs' = [reqs EXCEPT ![r].pc = "done",
                            ![r].response = AddSecurityHeaders(@)]
    /\ UNCHANGED <<now, request_counts, log, call, result>>

\* the response has been sent: the slot is free for the next request
Finish(r) ==
    /\ reqs[r].pc = "done"
    /\ reqs' = [reqs EXCEPT ![r] = IdleRequest]
    /\ UNCHANGED <<now, request_counts, log, call, result>>

(***************************************************************************)
(* GET / and GET /health                                                   *)
(***************************************************************************)
Root(r) ==
    /\ reqs[r].pc = "call_next"
    /\ reqs[r].path = "/"
    /\ reqs' = [reqs EXCEPT ![r].pc = "respond",
                            ![r].response = JSONResponse(200, "", "")]
    /\ UNCHANGED <<now, request_counts, log, call, result>>

\* the self-test either passes or raises
HealthCheck(r) ==
    /\ reqs[r].pc = "call_next"
    /\ reqs[r].path = "/health"
    /\ \E healthy \in BOOLEAN :
          reqs' = [reqs EXCEPT ![r].pc = "respond",
                               ![r].response = IF healthy THEN JSONResponse(200, "", "")
                                               ELSE JSONResponse(503, "", "")]
    /\ UNCHANGED <<now, request_counts, log, call, result>>


(***************************************************************************)
(* POST /upscale                                                           *)
(***************************************************************************)
\* scale_factor <= 0 or scale_factor > 4.0 on floats: every comparison with
\* nan is false
ScaleRejected(s) ==
    \/ s.kind = "ninf"
    \/ s.kind = "pinf"
    \/ s.kind = "fin" /\ (s.n <= 0 \/ s.n > 4 * s.d)

ScaleCheck(r) ==
    /\ reqs[r].pc = "call_next"
    /\ reqs[r].path = "/upscale"
    /\ IF ScaleRejected(reqs[r].scale_factor)
       THEN reqs' = [reqs EXCEPT
                ![r].pc = "respond",
                ![r].trace = Append(@, "scale"),
                ![r].response = ExceptionResponse(
                    HTTPException(400, "Scale factor must be between 0.1 and 4.0"))]
       ELSE reqs' = [reqs EXCEPT ![r].pc = "validate", ![r].trace = Append(@, "scale")]
    /\ UNCHANGED <<now, request_counts, log, call, result>>

Validate(r) ==
    /\ reqs[r].pc = "validate"
    /\ LET res == ValidateImageFile(reqs[r].file)
       IN IF ~res[1]
          THEN reqs' = [reqs EXCEPT
                   ![r].pc = "respond",
                   ![r].trace = Append(@, "validate"),
                   ![r].valid = Validated(res),
                   ![r].response = ExceptionResponse(HTTPException(400, res[2]))]
          ELSE reqs' = [reqs EXCEPT
                   ![r].pc = "read",
                   ![r].trace = Append(@, "validate"),
                   ![r].valid = Validated(res)]
    /\ UNCHANGED <<now, request_counts, log, call, result>>

\* await file.read(): the content arrives, or the read raises
ReadFile(r) ==
    /\ reqs[r].pc = "read"
    /\ \E read_ok \in BOOLEAN :
          IF read_ok
          THEN reqs' = [reqs EXCEPT ![r].pc = "size_check", ![r].trace = Append(@, "read")]
          ELSE reqs' = [reqs EXCEPT
                   ![r].pc = "respond",
                   ![r].trace = Append(@, "read"),
                   ![r].failed = "read",
                   ![r].response = ExceptionResponse(UpscaleExcept(OtherException))]
    /\ UNCHANGED <<now, request_counts, log, call, result>>

\* len(file_content) > MAX_FILE_SIZE
SizeCheck(r) ==
    /\ reqs[r].pc = "size_check"
    /\ IF reqs[r].body_len > MAX_FILE_SIZE
       THEN reqs' = [reqs EXCEPT
                ![r].pc = "respond",
                ![r].response = ExceptionResponse(UpscaleExcept(
                    HTTPException(413, "File too large. Maximum size: 10MB")))]
       ELSE reqs' = [reqs EXCEPT ![r].pc = "process"]
    /\ UNCHANGED <<now, request_counts, log, call, result>>

\* processor.process_image(file_content, scale_factor) and the response made
\* of what it returns; the content is image and the library fails at fault
Transform(r, image, fault) ==
    /\ reqs[r].pc = "process"
    /\ LET out == ProcessImage(image, reqs[r].scale_factor, fault)
       IN IF out.ok
          THEN reqs' = [reqs EXCEPT
                   ![r].pc = "respond",
                   ![r].trace = Append(@, "transform"),
                   ![r].response = StreamingResponse(out.meta)]
          ELSE reqs' = [reqs EXCEPT
                   ![r].pc = "respond",
                   ![r].trace = Append(@, "transform"),
                   ![r].failed = out.failed,
                   ![r].response = ExceptionResponse(UpscaleExcept(out.exc))]
    /\ UNCHANGED <<now, request_counts, log, call, result>>


(***************************************************************************)
(* Inputs                                                                  *)
(***************************************************************************)
ScaleFactors ==
    {Fin(0, 1), Fin(-1, 1), Fin(1, 2), Fin(2, 1), Fin(4, 1), Fin(5, 1),
     NaN, PosInf, NegInf}

FileNames ==
    {<<>>,
     <<"a", ".", "j", "p", "g">>,
     <<"A", ".", "P", "N", "G">>,
     <<"a", ".", "g", "i", "f">>,
     <<".", "p", "n", "g">>,
     <<"a", ".", "j", "p", "g", "/", "b">>}

ContentTypes == {"image/jpeg", "image/webp", "image/gif"}

DeclaredSizes == {SizeAbsent, SizeNone, SizeOf(MAX_FILE_SIZE), SizeOf(MAX_FILE_SIZE + 1)}

BodyLengths == {MAX_FILE_SIZE, MAX_FILE_SIZE + 1}

Uploads ==
    [size : DeclaredSizes, filename : FileNames, content_type : ContentTypes]

Faults == {"", "decode", "convert", "resize", "sharpen", "encode"}

\* the contents a read body may hold
Bodies ==
    {Corrupt, Picture("RGB", 100, 100), Picture("RGBA", 3000, 3000), Picture("L", 1, 1)}

Sides == (1..MaxSmallDim) \cup {100, 1000, 3000, 4000, 4001, 5000}

CallScales == {Fin(1, 4), Fin(1, 2), Fin(1, 1), Fin(3, 2), Fin(2, 1), Fin(4, 1), Fin(5, 1), NaN}

Calls ==
    {[image |-> Picture(m, w, h), scale_factor |-> s, fault |-> f, made |-> FALSE] :
        m \in {"RGB", "RGBA", "P"}, w \in Sides, h \in Sides, s \in CallScales,
        f \in {"", "encode"}}
    \cup
    {[image |-> Corrupt, scale_factor |-> s, fault |-> "", made |-> FALSE] : s \in CallScales}

(***************************************************************************)
(* Specifications                                                          *)
(***************************************************************************)
Init ==
    /\ now = 0
    /\ request_counts = [c \in Clients |-> <<>>]
    /\ log = [c \in Clients |-> <<>>]
    /\ reqs = [r \in Slots |-> IdleRequest]
    /\ call = NoCall
    /\ result = NoResult

\* requests for GET / from every client, one at a time
ArriveRoot == \E c \in Clients : Arrive(1, c, "/", DEFAULT_SCALE_FACTOR, NoFile, 0)

Next ==
    \/ ArriveRoot
    \/ Tick
    \/ Gate(1)
    \/ Root(1)
    \/ Respond(1)
    \/ Finish(1)

Spec == Init /\ [][Next]_vars

\* requests for GET / from one client, handled concurrently
ArriveConcurrent ==
    \E r \in Slots : Arrive(r, "10.0.0.1", "/", DEFAULT_SCALE_FACTOR, NoFile, 0)

NextConcurrent ==
    \/ ArriveConcurrent
    \/ Tick
    \/ \E r \in Slots : Gate(r)
    \/ \E r \in Slots : Root(r)
    \/ \E r \in Slots : Respond(r)
    \/ \E r \in Slots : Finish(r)

SpecConcurrent == Init /\ [][NextConcurrent]_vars

\* one client, one request at a time, every endpoint and every upload
ArriveGet == \E path \in {"/", "/health"} :
                Arrive(1, "10.0.0.1", path, DEFAULT_SCALE_FACTOR, NoFile, 0)

ArriveUpscale == \E s \in ScaleFactors, file \in Uploads, len \in BodyLengths :
                    Arrive(1, "10.0.0.1", "/upscale", s, file, len)

NextUpscale ==
    \/ ArriveGet
    \/ ArriveUpscale
    \/ Gate(1)
    \/ Root(1)
    \/ HealthCheck(1)
    \/ ScaleCheck(1)
    \/ Validate(1)
    \/ ReadFile(1)
    \/ SizeCheck(1)
    \/ \E image \in Bodies, fault \in Faults : Transform(1, image, fault)
    \/ Respond(1)
    \/ Finish(1)

SpecUpscale == Init /\ [][NextUpscale]_vars

\* direct calls of process_image
InitProcess ==
    /\ now = 0
    /\ request_counts = [c \in Clients |-> <<>>]
    /\ log = [c \in Clients |-> <<>>]
    /\ reqs = [r \in Slots |-> IdleRequest]
    /\ call \in Calls
    /\ result = NoResult

CallProcessImage ==
    /\ ~call.made
    /\ call' = [call EXCEPT !.made = TRUE]
    /\ result' = ProcessImage(call.image, call.scale_factor, call.fault)
    /\ UNCHANGED <<now, request_counts, log, reqs>>

NextProcess == CallProcessImage

SpecProcess == InitProcess /\ [][NextProcess]_vars


(***************************************************************************)
(* Properties of the rate limiter                                          *)
(***************************************************************************)
\* the middleware's rate-limit block runs for the request in slot r
GateActs(r) == reqs[r].pc = "middleware" /\ reqs'[r].pc # "middleware"

\* the times at which requests of client c were admitted
AdmittedTimes(c) ==
    LET kept == SelectSeq(log[c], LAMBDA e : e.admitted)
    IN [i \in 1..Len(kept) |-> kept[i].t]

\* how many members of the sequence times lie in [from, to)
CountBetween(times, from, to) ==
    Cardinality({i \in 1..Len(times) : from <= times[i] /\ times[i] < to})

\* C1: once 10 requests of a client were admitted within the trailing 60
\* seconds, its next request in that window is answered 429; a request that
\* arrives when the 60-second window of every earlier admitted request has
\* elapsed is admitted, however many requests were rejected in between.
C1_WindowRejectsThenAdmits ==
    [][\A r \in Slots : GateActs(r) =>
          LET c == reqs[r].client
              earlier == AdmittedTimes(c)
          IN /\ CountBetween(earlier, now - 59, now + 1) >= 10
                    => reqs'[r].response.status = 429
             /\ (\A i \in 1..Len(earlier) : now - earlier[i] >= 60)
                    => /\ reqs'[r].response.status # 429
                       /\ reqs'[r].pc = "call_next"]_vars

\* a client was rejected and, later, admitted again after 10 admissions
C1_Witness ==
    \E c \in Clients :
        /\ Len(AdmittedTimes(c)) >= 11
        /\ \E i, j \in 1..Len(log[c]) :
              i < j /\ ~log[c][i].admitted /\ log[c][j].admitted

\* C10: a check prunes the client's expired timestamps; with at least 10 left
\* it rejects and the sequence is exactly the survivors, otherwise it accepts
\* and appends exactly the current time; no sequence ever holds more than 10
\* timestamps and the other clients' sequences are unchanged.
C10_CheckFrame ==
    [][\A r \in Slots : GateActs(r) =>
          LET c == reqs[r].client
              survivors == SelectSeq(request_counts[c], LAMBDA x : now - x < 60)
          IN /\ IF Len(survivors) >= 10
                THEN /\ request_counts'[c] = survivors
                     /\ reqs'[r].response.status = 429
                ELSE /\ request_counts'[c] = survivors \o <<now>>
                     /\ reqs'[r].response.status # 429
             /\ \A o \in Clients \ {c} : request_counts'[o] = request_counts[o]
             /\ \A o \in Clients : Len(request_counts'[o]) <= 10]_vars

\* a client was rejected with a full sequence while another client has
\* timestamps of its own
C10_Witness ==
    \E c \in Clients, o \in Clients :
        /\ c # o
        /\ Len(request_counts[c]) = 10
        /\ \E i \in 1..Len(log[c]) : ~log[c][i].admitted
        /\ Len(request_counts[o]) >= 1

\* how often t occurs in the sequence times
Occurrences(times, t) == Cardinality({i \in 1..Len(times) : times[i] = t})

\* the set of the members of the sequence times
Members(times) == {times[i] : i \in 1..Len(times)}

\* C9: with requests of one client handled concurrently, no admitted
\* timestamp is lost (every admitted time still inside the window is in the
\* client's sequence as often as it was admitted) and at most 10 requests of
\* the client are admitted within any 60-second window (a window holding the
\* most admissions can be taken to start at one of them).
C9_NoLostUpdate ==
    \A c \in Clients :
        LET admittedAt == AdmittedTimes(c)
        IN /\ \A t \in Members(admittedAt) \cup Members(request_counts[c]) :
                 now - t < 60 =>
                     Occurrences(request_counts[c], t) = Occurrences(admittedAt, t)
           /\ \A from \in Members(admittedAt) :
                 CountBetween(admittedAt, from, from + 60) <= 10

\* two requests of one client are past the rate limiter at the same time,
\* the client's window is full and a third request was rejected
C9_Witness ==
    \E r1 \in Slots, r2 \in Slots :
        /\ r1 # r2
        /\ reqs[r1].pc \in {"call_next", "respond"}
        /\ reqs[r2].pc \in {"call_next", "respond"}
        /\ reqs[r1].client = reqs[r2].client
        /\ Len(request_counts[reqs[r1].client]) = 10
        /\ \E i \in 1..Len(log[reqs[r1].client]) : ~log[reqs[r1].client][i].admitted


(***************************************************************************)
(* Properties of the responses and of POST /upscale                        *)
(***************************************************************************)
\* the request in slot r has been answered
Answered(r) == reqs[r].pc = "done"

\* the rate limiter admitted the request in slot r
Admitted(r) == \E i \in 1..Len(reqs[r].trace) : reqs[r].trace[i] = "gate"

\* the step named step has run for the request in slot r
Ran(r, step) == \E i \in 1..Len(reqs[r].trace) : reqs[r].trace[i] = step

\* s is a finite number in (0, 4.0]
InScaleDomain(s) == s.kind = "fin" /\ s.n > 0 /\ s.n <= 4 * s.d

\* C2: every response the service emits, whatever the endpoint and the
\* outcome, carries the five security headers; the 429 rejection too.
C2_EveryResponseHasSecurityHeaders ==
    \A r \in Slots :
        Answered(r) =>
            {"X-Content-Type-Options", "X-Frame-Options", "X-XSS-Protection",
             "Strict-Transport-Security", "Referrer-Policy"} \subseteq reqs[r].response.headers

\* C4: an admitted POST /upscale request with a valid scale factor and a body
\* of more than 10 MiB is answered 413 with error_code FILE_TOO_LARGE and
\* process_image is never invoked for it, whether or not the validator knows
\* the declared size.  Stated for the uploads whose name and MIME type the
\* validator accepts, whose size attribute is missing or an integer, and
\* whose read does not fail.
C4_LargeBodyIs413 ==
    \A r \in Slots :
        (/\ reqs[r].path = "/upscale"
         /\ Admitted(r)
         /\ InScaleDomain(reqs[r].scale_factor)
         /\ reqs[r].body_len > 10 * 1024 * 1024
         /\ reqs[r].file.filename = <<"a", ".", "j", "p", "g">>
         /\ reqs[r].file.content_type = "image/jpeg"
         /\ reqs[r].file.size.known \in {"absent", "int"}
         /\ reqs[r].failed # "read")
        => /\ ~Ran(r, "transform")
           /\ Answered(r) => /\ reqs[r].response.status = 413
                             /\ reqs[r].response.error_code = "FILE_TOO_LARGE"

\* the order of the steps of one handling of POST /upscale
StepOrder == <<"gate", "scale", "validate", "read", "transform">>

\* the upload C5 names: a file with the extension .gif
IsGifName(name) == name = <<"a", ".", "g", "i", "f">>

\* C5: the steps of a handling of POST /upscale run in the order rate-limit
\* gate, scale-factor check, validator, read, transform; the payload is read
\* and decoded only after the rate limiter admitted the request and the
\* validator returned Valid; a .gif upload that reaches the endpoint is
\* answered 400 and none of its bytes is read or decoded.
C5_StepOrder ==
    \A r \in Slots :
        reqs[r].path = "/upscale" =>
            /\ Len(reqs[r].trace) <= Len(StepOrder)
            /\ reqs[r].trace = SubSeq(StepOrder, 1, Len(reqs[r].trace))
            /\ Ran(r, "read") =>
                  Admitted(r) /\ reqs[r].valid.called /\ reqs[r].valid.is_valid
            /\ Ran(r, "transform") => Ran(r, "read")
            /\ IsGifName(reqs[r].file.filename) =>
                  /\ ~Ran(r, "read")
                  /\ ~Ran(r, "transform")
                  /\ (Answered(r) /\ Admitted(r)) => reqs[r].response.status = 400

\* an admitted .gif upload with a valid scale factor was rejected by the
\* validator with 400
C5_Witness ==
    \E r \in Slots :
        /\ Answered(r)
        /\ IsGifName(reqs[r].file.filename)
        /\ reqs[r].file.size = SizeAbsent
        /\ reqs[r].file.content_type = "image/jpeg"
        /\ reqs[r].trace = <<"gate", "scale", "validate">>
        /\ reqs[r].response.status = 400

\* C6: a POST /upscale request whose scale_factor is not a finite number in
\* (0, 4.0] is answered 400 before any processing: the validator, the read and
\* process_image do not run for it; a factor in (0, 4.0] is never rejected by
\* the check.
C6_BadScaleIs400 ==
    \A r \in Slots :
        (reqs[r].path = "/upscale" /\ Ran(r, "scale")) =>
            IF InScaleDomain(reqs[r].scale_factor)
            THEN reqs[r].pc # "respond" \/ Ran(r, "validate")
            ELSE /\ ~Ran(r, "validate")
                 /\ ~Ran(r, "read")
                 /\ ~Ran(r, "transform")
                 /\ Answered(r) => reqs[r].response.status = 400

TransformStages == {"decode", "convert", "dimensions", "resize", "sharpen", "encode"}

\* C7: for an admitted request that passed the scale-factor check, the
\* validator and the size limit, a failure of any transform step gives 422
\* with error_code VALIDATION_ERROR: no 500, no 200, no image bytes and no
\* X-Processing-Status: success.
C7_TransformFailureIs422 ==
    \A r \in Slots :
        reqs[r].failed \in TransformStages =>
            /\ reqs[r].response.status = 422
            /\ reqs[r].response.error_code = "VALIDATION_ERROR"
            /\ reqs[r].response.body = "json"
            /\ reqs[r].response.processing_status # "success"

\* the encoder failed on a decoded image and the request was answered 422
C7_Witness ==
    \E r \in Slots :
        /\ Answered(r)
        /\ reqs[r].failed = "encode"
        /\ reqs[r].trace = StepOrder
        /\ reqs[r].body_len <= 10 * 1024 * 1024
        /\ reqs[r].response.status = 422

\* the result C8 states for an upload
ClaimedValidation(file) ==
    LET ext == Splitext(Lower(file.filename))[2]
    IN IF file.size.known = "int" /\ file.size.v > 10 * 1024 * 1024
       THEN <<FALSE, "File size exceeds maximum limit of 10MB">>
       ELSE IF file.filename # <<>> /\ ext \notin {EXT_JPG, EXT_JPEG, EXT_PNG, EXT_WEBP}
       THEN <<FALSE, "Unsupported file format">>
       ELSE IF file.content_type \notin {"image/jpeg", "image/png", "image/webp"}
       THEN <<FALSE, "Invalid content type. Expected image file.">>
       ELSE <<TRUE, "">>

\* C8: validate_image_file checks size, extension, MIME type in this order and
\* returns the reason of the first failing check, or Valid; with the declared
\* size unknown (absent or None) the size check is skipped.
C8_ValidatorResult ==
    \A r \in Slots :
        reqs[r].valid.called =>
            <<reqs[r].valid.is_valid, reqs[r].valid.error_message>>
                = ClaimedValidation(reqs[r].file)

\* C3: when process_image succeeds for a scale factor in (0, 4.0], the
\* processed width is floor(origW * s') and the processed height is
\* floor(origH * s'), s' being the scale_factor of the metadata, and both are
\* at most 4000.
C3_ProcessedSize ==
    (call.made /\ result.ok /\ InScaleDomain(call.scale_factor)) =>
        LET used == result.meta.scale_factor
            w == result.meta.processed_size[1]
            h == result.meta.processed_size[2]
        IN /\ used.kind = "fin" /\ used.d > 0
           /\ w = (call.image.width * used.n) \div used.d
           /\ h = (call.image.height * used.n) \div used.d
           /\ w <= 4000
           /\ h <= 4000

\* a call succeeded whose requested factor was reduced by the clamp
C3_Witness ==
    /\ call.made
    /\ result.ok
    /\ InScaleDomain(call.scale_factor)
    /\ result.meta.scale_factor # call.scale_factor
    /\ result.meta.processed_size[1] = 4000
    /\ result.meta.processed_size[2] < 4000

====
